---- MODULE Spec2Model ----
(***************************************************************************)
(* Autosave controller (useAutoSave hook) of the blog editor: debounce    *)
(* timer, serialized commit attempts, retry with exponential backoff,     *)
(* online/offline deferral and the draft backup in localStorage.          *)
(* Time is counted in milliseconds; the clock advances in steps of        *)
(* TimeUnit and a timer callback runs exactly when its remaining time     *)
(* has reached 0 (the event loop is otherwise idle).                      *)
(*                                                                         *)
(* Record store (lib/storage.ts): the collection of posts kept as one     *)
(* JSON array under one localStorage key, with its capacity check.        *)
(* Spec runs the controller with the store untouched; StoreSpec runs the  *)
(* store's operations with the controller idle.                           *)
(***************************************************************************)
EXTENDS Integers, Sequences, FiniteSets, TLC

(* ---- bounds of the exploration ---- *)
MaxCalls == 2      \* autoSave calls made by the editor
MaxConn == 2       \* online/offline events delivered by the browser

(* ---- defaults of UseAutoSaveOptions ---- *)
debounceDelay == 3000
maxRetries == 3
retryDelay == 1000

TimeUnit == retryDelay   \* granularity of the clock

(* ---- values ---- *)
PostIds == {"", "p1"}                    \* data.id; "" is a post without id
NoData == [id |-> "null", rev |-> 0]     \* pendingDataRef.current === null
NoTimer == -1                            \* no debounce timer armed
NoError == "null"
NoDate == "null"
Rejections == {"Error"}                  \* what onSave may reject with: an Error object

RECURSIVE Pow(_, _)
Pow(b, e) == IF e <= 0 THEN 1 ELSE b * Pow(b, e - 1)

DraftKey(data) == "blog_draft_" \o (IF data.id = "" THEN "new" ELSE data.id)

VARIABLES
  isSaving,          \* useState: exposed isSaving
  lastSavedAt,       \* useState: exposed lastSavedAt
  error,             \* useState: exposed error
  debounceTimer,     \* remaining ms of the timer held by debounceTimerRef
  retryTimers,       \* outstanding backoff timers, in arming order
  retryCountRef,
  pendingDataRef,
  isSavingRef,
  isOnlineRef,
  inFlight,          \* onSave promises not settled yet
  postId,            \* id of the post this editor session works on
  mounted,           \* the component using the hook is mounted
  delay,             \* the debounceDelay option the hook was called with
  saveStatus,        \* BlogEditor's useState saveStatus
  statusTimers,      \* BlogEditor's outstanding timers that reset saveStatus to 'idle'
  \* ---- history of the run, read by the properties only ----
  nCalls,            \* autoSave calls so far; the n-th payload has rev n
  nConn,             \* connectivity events so far
  latest,            \* payload of the most recent autoSave call
  sinceCall,         \* ms elapsed since the most recent autoSave call
  invoked,           \* revs ever passed to onSave
  superseded,        \* revs replaced by a newer autoSave before any commit of them
  clean,             \* last autoSave call found the controller idle, no connectivity event since
  chain,             \* commit attempts since the last autoSave call (while clean)
  exhaustedData,     \* payload whose attempt number maxRetries failed with no timer left
                     \* outstanding, until the next autoSave call
  deferredData,      \* payload deferred by a debounce expiry while offline
  deferredRetry,     \* payload a backoff timer found pending when it fired offline,
                     \* until the next autoSave call or online event
  ev,                \* what the last step did
  \* ---- record store ----
  stored,            \* the value held by localStorage under STORAGE_KEY
  nextId,            \* ids handed out by generateId so far, plus one
  nOps,              \* store operations called so far
  res,               \* the last store operation: its arguments, the value found
                     \* under STORAGE_KEY before it, and what it returned or threw
  \* ---- ImageUploader and the image handler ----
  isUploading,       \* useState
  previewUrl,        \* useState
  uploadError,       \* useState error of ImageUploader
  uploadProgress,    \* useState
  intervals,         \* handles of the intervals set and not cleared
  nextHandle,        \* the handle the next setInterval returns
  processing,        \* processImage calls not settled yet
  reading,           \* FileReader.readAsDataURL calls whose onload is to come
  resetTimers,       \* outstanding 1500 ms timers that end the upload display
  selected,          \* number of onImageSelect calls so far
  nUploads,          \* files given to the uploader or to the image handler so far
  failed,            \* the most recent upload begun has failed
  up                 \* what the last step of the uploader or image handler did

progVars == <<isSaving, lastSavedAt, error, debounceTimer, retryTimers, retryCountRef,
              pendingDataRef, isSavingRef, isOnlineRef, inFlight, postId, mounted,
              delay, saveStatus, statusTimers>>
histVars == <<nCalls, nConn, latest, sinceCall, invoked, superseded, clean, chain,
              exhaustedData, deferredData, deferredRetry, ev>>
storeVars == <<stored, nextId, nOps, res>>
uploaderVars == <<isUploading, previewUrl, uploadError, uploadProgress, intervals, nextHandle,
                  processing, reading, resetTimers, selected, nUploads, failed, up>>
vars == <<progVars, histVars, storeVars, uploaderVars>>

(* ---- the controller's state as one value, threaded through a handler ---- *)
Cur ==
  [ isSaving |-> isSaving, lastSavedAt |-> lastSavedAt, error |-> error,
    retryTimers |-> retryTimers, retryCountRef |-> retryCountRef,
    pendingDataRef |-> pendingDataRef, isSavingRef |-> isSavingRef,
    isOnlineRef |-> isOnlineRef, inFlight |-> inFlight, mounted |-> mounted,
    saveStatus |-> saveStatus, statusTimers |-> statusTimers,
    fx |-> <<>>, escaped |-> FALSE ]

(* an effect of a handler on its surroundings: "attempt" (a commit attempt is
   entered, n its number), "setItem" (localStorage.setItem(key, snapshot of
   data); n = 1 when it throws, 0 when the snapshot is stored), "onSave" (the
   injected save function is called, n the attempt number), "arm" (a backoff
   timer is armed, n its delay).  The hook never reads the draft backup back,
   so the stored snapshots are no part of the controller's state. *)
Fx(k, key, data, n) == [k |-> k, key |-> key, data |-> data, n |-> n]

(* saveToLocalStorage: the try/catch swallows a throwing setItem *)
BackupEscapes_NoCatch(setItemFails) == setItemFails
BackupEscapes(setItemFails) == FALSE

SaveToLocalStorage(s, data, setItemFails) ==
  [s EXCEPT !.fx = Append(@, Fx("setItem", DraftKey(data), data, IF setItemFails THEN 1 ELSE 0))]

(* the optimistic backup at the head of the try block *)
OptimisticBackup_Skipped(s, data, setItemFails) == s
OptimisticBackup(s, data, setItemFails) == SaveToLocalStorage(s, data, setItemFails)

(* guard "already saving" *)
AlreadySaving_Off(s) == FALSE
AlreadySaving(s) == s.isSavingRef

(* guard "offline" *)
Offline_Ignored(s) == FALSE
Offline(s) == ~s.isOnlineRef

(* retry policy *)
ShouldRetry_OneMore(attemptNumber) == attemptNumber <= maxRetries
ShouldRetry(attemptNumber) == attemptNumber < maxRetries

BackoffDelay_OffByOne(attemptNumber) == retryDelay * Pow(2, attemptNumber)
BackoffDelay(attemptNumber) == retryDelay * Pow(2, attemptNumber - 1)

ToError_Silent(reason) == NoError
ToError(reason) == IF reason = "Error" THEN "Error" ELSE "Auto-save failed"

(* catch block of executeAutoSave *)
Catch(s, data, attemptNumber, reason) ==
  LET s1 == [s EXCEPT !.error = ToError(reason)]
  IN IF ShouldRetry(attemptNumber)
       THEN [s1 EXCEPT
               !.retryTimers = Append(@, [attempt |-> attemptNumber + 1, data |-> data,
                                          remaining |-> BackoffDelay(attemptNumber),
                                          elapsed |-> 0]),
               !.fx = Append(@, Fx("arm", "", data, BackoffDelay(attemptNumber)))]
       ELSE s1

(* finally block of executeAutoSave *)
Finally_KeepSaving(s) == [s EXCEPT !.isSavingRef = FALSE]
Finally(s) == [s EXCEPT !.isSavingRef = FALSE, !.isSaving = FALSE]

(* executeAutoSave up to the await *)
ExecuteAutoSave(s, data, attemptNumber, setItemFails) ==
  IF AlreadySaving(s)
    THEN [s EXCEPT !.pendingDataRef = data]
  ELSE IF Offline(s)
    THEN [SaveToLocalStorage([s EXCEPT !.pendingDataRef = data], data, setItemFails)
            EXCEPT !.escaped = BackupEscapes(setItemFails)]
  ELSE LET s1 == [s EXCEPT !.isSavingRef = TRUE, !.isSaving = TRUE,
                           !.retryCountRef = attemptNumber - 1,
                           !.fx = Append(@, Fx("attempt", "", data, attemptNumber))]
           s2 == OptimisticBackup(s1, data, setItemFails)
       IN IF BackupEscapes(setItemFails)
            THEN Finally(Catch(s2, data, attemptNumber, "Error"))
            ELSE [s2 EXCEPT !.inFlight = Append(@, [data |-> data, attempt |-> attemptNumber]),
                            !.fx = Append(@, Fx("onSave", "", data, attemptNumber))]

(* executeAutoSave after the await: onSave resolved *)
AfterResolve(s) ==
  Finally([s EXCEPT !.lastSavedAt = "Date", !.error = NoError,
                    !.pendingDataRef = NoData, !.retryCountRef = 0])

(* executeAutoSave after the await: onSave rejected *)
AfterReject(s, data, attemptNumber, reason) == Finally(Catch(s, data, attemptNumber, reason))

(* payload a retry timer commits *)
RetryPayload_Captured(s, data) == data
RetryPayload(s, data) == s.pendingDataRef

(* autoSave: clearTimeout + setTimeout *)
DebounceArm_KeepOld(old) == IF old # NoTimer THEN old ELSE delay
DebounceArm(old) == delay

RemoveAt(seq, i) == [j \in 1..(Len(seq) - 1) |-> IF j < i THEN seq[j] ELSE seq[j + 1]]

Starts(fx) == {i \in 1..Len(fx) : fx[i].k = "onSave"}
StartedRevs(fx) == {fx[i].data.rev : i \in Starts(fx)}

(* write a handler's result back *)
Commit(s, op, data, attempt) ==
  /\ isSaving' = s.isSaving
  /\ lastSavedAt' = s.lastSavedAt
  /\ error' = s.error
  /\ retryTimers' = s.retryTimers
  /\ retryCountRef' = s.retryCountRef
  /\ pendingDataRef' = s.pendingDataRef
  /\ isSavingRef' = s.isSavingRef
  /\ isOnlineRef' = s.isOnlineRef
  /\ inFlight' = s.inFlight
  /\ postId' = postId
  /\ mounted' = s.mounted
  /\ delay' = delay
  /\ saveStatus' = s.saveStatus
  /\ statusTimers' = s.statusTimers
  /\ invoked' = invoked \cup StartedRevs(s.fx)
  /\ ev' = [op |-> op, data |-> data, attempt |-> attempt, fx |-> s.fx, escaped |-> s.escaped]
  /\ UNCHANGED <<storeVars, uploaderVars>>

ChainStart(s, gap) ==
  IF clean /\ Starts(s.fx) # {}
    THEN Append(chain, [attempt |-> s.fx[CHOOSE i \in Starts(s.fx) : TRUE].n,
                        gap |-> gap, outcome |-> "pending"])
    ELSE chain

ChainSettle(outcome) ==
  IF clean /\ chain # <<>> THEN [chain EXCEPT ![Len(chain)].outcome = outcome] ELSE chain

(* ======================= record store: lib/storage.ts ======================= *)
MaxOps == 3        \* store operations called in one run

MAX_STORAGE_SIZE == 5 * 1024 * 1024

(* A string is carried by its length, a date by the clock value it was read at, a    *)
(* post by a record with the fields its JSON object has. A JSON text is carried by   *)
(* what JSON.parse makes of it: kind "array" with its elements in posts, kind        *)
(* "nonarray" (an object, its members in posts), kind "corrupt" (JSON.parse          *)
(* throws); kind "missing" is getItem's null.                                        *)
Missing == [kind |-> "missing", posts |-> <<>>, indent |-> 0]
Corrupt == [kind |-> "corrupt", posts |-> <<>>, indent |-> 0]
NonArray == [kind |-> "nonarray", posts |-> <<[id |-> 101, title |-> 5]>>, indent |-> 0]

Undefined == -1                \* undefined, in a field holding an id or a date
NullEntry == [null |-> TRUE]   \* null as an element of an array
NullRet == [kind |-> "null"]   \* null as a return value
UnknownId == 999               \* an id no record bears

IsNull(e) == "null" \in DOMAIN e

(* r.f where f holds an id or a date *)
Prop(r, f) == IF f \in DOMAIN r THEN r[f] ELSE Undefined

(* r.f || d *)
Field(r, f, d) == IF f \in DOMAIN r THEN r[f] ELSE d

(* { ...r, f: v } *)
Put(r, f, v) == [g \in DOMAIN r \cup {f} |-> IF g = f THEN v ELSE r[g]]

(* { ...post, ...updates } *)
Spread(post, updates) ==
  [f \in DOMAIN post \cup DOMAIN updates |-> IF f \in DOMAIN updates THEN updates[f] ELSE post[f]]

(* JSON.stringify leaves out the members whose value is undefined *)
DropUndefined(p) ==
  [f \in {g \in DOMAIN p : ~(g \in {"id", "createdAt", "publishedAt"} /\ p[g] = Undefined)} |-> p[f]]

JsonStringify(posts, indent) ==
  [kind |-> "array", posts |-> [i \in 1..Len(posts) |-> DropUndefined(posts[i])],
   indent |-> indent]

RECURSIVE SumSeq(_)
SumSeq(ns) == IF ns = <<>> THEN 0 ELSE Head(ns) + SumSeq(Tail(ns))

(* length in bytes of the compact JSON text of one element *)
JsonLength(p) ==
  LET q == DropUndefined(p)
      content == Field(q, "content", <<>>)
  IN 2 + 24 * Cardinality(DOMAIN q) + Field(q, "title", 0) + Field(q, "seoTitle", 0)
       + Field(q, "seoDescription", 0) + 8 * Len(Field(q, "seoKeywords", <<>>))
       + SumSeq([i \in 1..Len(content) |-> 64 + content[i].chars])

(* getObjectSize(posts): the brackets, the elements, the commas between them *)
GetObjectSize(posts) ==
  2 + SumSeq([i \in 1..Len(posts) |-> JsonLength(posts[i])])
    + (IF Len(posts) > 1 THEN Len(posts) - 1 ELSE 0)

GenerateSlug(title) == [base |-> title, copy |-> 0]

CalculateReadingTime(wordCount) ==
  LET minutes == (wordCount + 199) \div 200 IN IF minutes > 1 THEN minutes ELSE 1

FirstParagraph(contentBlocks) ==
  LET ps == SelectSeq(contentBlocks, LAMBDA b : b.type = "paragraph")
  IN IF ps = <<>> THEN 0 ELSE Head(ps).chars

ExtractExcerpt(title, contentBlocks) ==
  LET text == FirstParagraph(contentBlocks)
  IN [chars |-> IF text > 160 THEN 160 ELSE text, dots |-> text > 160]

Min(a, b) == IF a < b THEN a ELSE b

CalculateSeoScore(title, description, wordCount, hasImages, keywordsCount) ==
  Min(100,
      (IF title >= 30 /\ title <= 60 THEN 15 ELSE IF title > 0 THEN 8 ELSE 0)
    + (IF description >= 120 /\ description <= 160 THEN 20 ELSE IF description > 0 THEN 10 ELSE 0)
    + (IF wordCount >= 300 /\ wordCount <= 3000 THEN 25 ELSE IF wordCount >= 100 THEN 12 ELSE 0)
    + (IF hasImages THEN 15 ELSE 0)
    + (IF keywordsCount >= 3 THEN 25 ELSE IF keywordsCount > 0 THEN keywordsCount * 8 ELSE 0))

(* a || b on string lengths: the empty string is falsy *)
OrElse(a, b) == IF a > 0 THEN a ELSE b

WordCount(blocks) ==
  LET ps == SelectSeq(blocks, LAMBDA b : b.type = "paragraph")
  IN SumSeq([i \in 1..Len(ps) |-> ps[i].words])

HasImages(blocks) == \E i \in 1..Len(blocks) : blocks[i].type = "image"

(* ---- the operations, as functions of the value under STORAGE_KEY ---- *)

(* generateId(): Date.now() and nine random base-36 digits; the n-th id handed out. *)
(* Two calls are taken never to return the same string, and no id is known before   *)
(* generateId has returned it.                                                      *)
GenerateId(n) == n

ArrayOrEmpty_Unchecked(parsed) == parsed.posts

(* Array.isArray(posts) ? posts : [] *)
ArrayOrEmpty(parsed) == IF parsed.kind = "array" THEN parsed.posts ELSE <<>>

GetAllPosts(raw) ==
  IF raw.kind = "missing" THEN <<>>
  ELSE IF raw.kind = "corrupt" THEN <<>>
  ELSE ArrayOrEmpty(raw)

(* posts.findIndex(p => p.id === id), counted from 1; 0 when there is none *)
FindIndex(posts, id) ==
  IF \E i \in 1..Len(posts) : Prop(posts[i], "id") = id
    THEN CHOOSE i \in 1..Len(posts) :
           /\ Prop(posts[i], "id") = id
           /\ \A j \in 1..(i - 1) : Prop(posts[j], "id") # id
    ELSE 0

GetPostById(raw, id) ==
  LET posts == GetAllPosts(raw)
      i == FindIndex(posts, id)
  IN IF i = 0 THEN NullRet ELSE [kind |-> "post", post |-> posts[i]]

GetPostsByStatus(raw, status) ==
  SelectSeq(GetAllPosts(raw), LAMBDA p : Field(p, "status", "undefined") = status)

OverCapacity_Never(posts) == FALSE

(* totalSize > MAX_STORAGE_SIZE *)
OverCapacity(posts) == GetObjectSize(posts) > MAX_STORAGE_SIZE

LimitExceeded(posts) ==
  [kind |-> "throw", message |-> "Storage limit exceeded",
   current |-> GetObjectSize(posts), limit |-> MAX_STORAGE_SIZE]

CreatePost(raw, input, id, now, setItemFails) ==
  LET newPost == [id |-> id, title |-> input.title, slug |-> GenerateSlug(input.title),
                  status |-> "draft", content |-> <<>>,
                  author |-> [name |-> input.authorName, email |-> input.authorEmail],
                  metadata |-> [wordCount |-> 0, readingTime |-> 0, seoScore |-> 0,
                                excerpt |-> [chars |-> 0, dots |-> FALSE], keywords |-> <<>>],
                  tags |-> <<>>, createdAt |-> now, updatedAt |-> now]
      posts == Append(GetAllPosts(raw), newPost)
  IN IF OverCapacity(posts) THEN [stored |-> raw, ret |-> LimitExceeded(posts)]
     ELSE IF setItemFails
       THEN [stored |-> raw,
             ret |-> [kind |-> "throw", message |-> "Failed to save post to localStorage"]]
     ELSE [stored |-> JsonStringify(posts, 0), ret |-> [kind |-> "post", post |-> newPost]]

KeepIdentity_UpdatesWin(post, updatedPost) == updatedPost

(* id: post.id, createdAt: post.createdAt, written after the spread of updates *)
KeepIdentity(post, updatedPost) ==
  Put(Put(updatedPost, "id", Prop(post, "id")), "createdAt", Prop(post, "createdAt"))

(* the metadata updatePost computes when updates.content is there *)
RecalculatedMetadata(updates, updatedPost) ==
  LET wordCount == WordCount(updates.content)
      keywordsCount == Len(Field(updates, "seoKeywords", <<>>))
  IN [wordCount |-> wordCount,
      readingTime |-> CalculateReadingTime(wordCount),
      seoScore |-> CalculateSeoScore(OrElse(Field(updates, "seoTitle", 0),
                                            Field(updatedPost, "title", 0)),
                                     Field(updates, "seoDescription", 0),
                                     wordCount, HasImages(updates.content), keywordsCount),
      excerpt |-> ExtractExcerpt(Field(updatedPost, "title", 0), updates.content),
      keywords |-> Field(updates, "seoKeywords", <<>>)]

(* what updatePost's catch makes of an exception thrown in its try block *)
UpdateCaught(exception) == NullRet

(* the object updatePost builds from the stored post and the updates *)
UpdatedPost(post, updates, now) ==
  LET merged == Put(KeepIdentity(post, Spread(post, updates)), "updatedAt", now)
  IN IF "content" \in DOMAIN updates
       THEN Put(merged, "metadata", RecalculatedMetadata(updates, merged))
       ELSE merged

UpdatePost(raw, id, updates, now, setItemFails) ==
  LET posts == GetAllPosts(raw)
      postIndex == FindIndex(posts, id)
      updatedPost == UpdatedPost(posts[postIndex], updates, now)
      written == [posts EXCEPT ![postIndex] = updatedPost]
  IN IF postIndex = 0 THEN [stored |-> raw, ret |-> NullRet]
     ELSE IF OverCapacity(written)
       THEN [stored |-> raw, ret |-> UpdateCaught(LimitExceeded(written))]
     ELSE IF setItemFails THEN [stored |-> raw, ret |-> UpdateCaught("setItem")]
     ELSE [stored |-> JsonStringify(written, 0), ret |-> [kind |-> "post", post |-> updatedPost]]

DeletePost(raw, id, setItemFails) ==
  LET posts == GetAllPosts(raw)
      filtered == SelectSeq(posts, LAMBDA p : Prop(p, "id") # id)
  IN IF Len(filtered) = Len(posts) THEN [stored |-> raw, ret |-> FALSE]
     ELSE IF setItemFails THEN [stored |-> raw, ret |-> FALSE]
     ELSE [stored |-> JsonStringify(filtered, 0), ret |-> TRUE]

DuplicatePost(raw, id, newId, now, setItemFails) ==
  LET found == GetPostById(raw, id)
      post == found.post
      duplicated == Put(Put(Put(Put(Put(Put(post, "id", newId),
                      "slug", [base |-> Field(post, "slug", GenerateSlug(0)).base, copy |-> now]),
                      "status", "draft"), "createdAt", now), "updatedAt", now),
                      "publishedAt", Undefined)
      posts == Append(GetAllPosts(raw), duplicated)
  IN IF found = NullRet THEN [stored |-> raw, ret |-> NullRet]
     ELSE IF OverCapacity(posts) THEN [stored |-> raw, ret |-> NullRet]
     ELSE IF setItemFails THEN [stored |-> raw, ret |-> NullRet]
     ELSE [stored |-> JsonStringify(posts, 0), ret |-> [kind |-> "post", post |-> duplicated]]

ExportPostsAsJson(raw) == JsonStringify(GetAllPosts(raw), 2)

AlreadyThere_Never(mergedPosts, post) == FALSE

(* mergedPosts.findIndex(p => p.id === post.id) !== -1 *)
AlreadyThere(mergedPosts, post) == FindIndex(mergedPosts, Prop(post, "id")) # 0

AddImported_InFront(mergedPosts, post) == <<post>> \o mergedPosts

(* mergedPosts.push(post) *)
AddImported(mergedPosts, post) == Append(mergedPosts, post)

(* the loop over the imported array; reading the id of a null element throws *)
RECURSIVE MergeImported(_, _, _)
MergeImported(mergedPosts, imported, count) ==
  IF imported = <<>> THEN [posts |-> mergedPosts, count |-> count, threw |-> FALSE]
  ELSE IF IsNull(Head(imported)) THEN [posts |-> mergedPosts, count |-> count, threw |-> TRUE]
  ELSE IF AlreadyThere(mergedPosts, Head(imported))
    THEN MergeImported(mergedPosts, Tail(imported), count)
  ELSE MergeImported(AddImported(mergedPosts, Head(imported)), Tail(imported), count + 1)

ImportFailed_Counted(raw, count, message) ==
  [stored |-> raw, ret |-> [kind |-> "import", success |-> FALSE, count |-> count, error |-> message]]

(* { success: false, count: 0, error } *)
ImportFailed(raw, count, message) ==
  [stored |-> raw, ret |-> [kind |-> "import", success |-> FALSE, count |-> 0, error |-> message]]

MergeStart_Empty(existingPosts) == <<>>

(* const mergedPosts = [...existingPosts] *)
MergeStart(existingPosts) == existingPosts

ImportPostsFromJson(raw, jsonString, setItemFails) ==
  LET m == MergeImported(MergeStart(GetAllPosts(raw)), jsonString.posts, 0)
  IN IF jsonString.kind = "corrupt" THEN ImportFailed(raw, 0, "SyntaxError")
     ELSE IF jsonString.kind # "array"
       THEN ImportFailed(raw, 0, "JSON must contain an array of posts")
     ELSE IF m.threw THEN ImportFailed(raw, m.count, "TypeError")
     ELSE IF OverCapacity(m.posts) THEN ImportFailed(raw, m.count, "Storage limit exceeded")
     ELSE IF setItemFails THEN ImportFailed(raw, m.count, "QuotaExceededError")
     ELSE [stored |-> JsonStringify(m.posts, 0),
           ret |-> [kind |-> "import", success |-> TRUE, count |-> m.count, error |-> "none"]]

GetStorageStats(raw) ==
  LET posts == GetAllPosts(raw)
      used == GetObjectSize(posts)
  IN [used |-> used, limit |-> MAX_STORAGE_SIZE,
      usedPercent |-> (used * 200 + MAX_STORAGE_SIZE) \div (2 * MAX_STORAGE_SIZE),
      posts |-> Len(posts)]

NoResult == [op |-> "init", id |-> Undefined, input |-> <<>>, before |-> Missing, ret |-> NullRet]

(* no store operation has been called *)
NoUrl == "null"
NoUploadError == "null"
NoFile == [type |-> "", size |-> 0]
NoStep == [op |-> "init", file |-> NoFile, accepted |-> FALSE, error |-> NoUploadError,
           asset |-> FALSE]

(* ImageUploader as mounted, no file given to it or to the image handler *)
UploaderIdle ==
  /\ isUploading = FALSE
  /\ previewUrl = NoUrl
  /\ uploadError = NoUploadError
  /\ uploadProgress = 0
  /\ intervals = {}
  /\ nextHandle = 1
  /\ processing = <<>>
  /\ reading = <<>>
  /\ resetTimers = 0
  /\ selected = 0
  /\ nUploads = 0
  /\ failed = FALSE
  /\ up = NoStep

StoreIdle ==
  /\ stored = Missing
  /\ nextId = 1
  /\ nOps = 0
  /\ res = NoResult

ControllerInit ==
  /\ isSaving = FALSE
  /\ lastSavedAt = NoDate
  /\ error = NoError
  /\ debounceTimer = NoTimer
  /\ retryTimers = <<>>
  /\ retryCountRef = 0
  /\ pendingDataRef = NoData
  /\ isSavingRef = FALSE
  /\ isOnlineRef \in BOOLEAN
  /\ inFlight = <<>>
  /\ postId \in PostIds
  /\ mounted = TRUE
  /\ saveStatus = "idle"
  /\ statusTimers = 0
  /\ nCalls = 0
  /\ nConn = 0
  /\ latest = NoData
  /\ sinceCall = 0
  /\ invoked = {}
  /\ superseded = {}
  /\ clean = FALSE
  /\ chain = <<>>
  /\ exhaustedData = NoData
  /\ deferredData = NoData
  /\ deferredRetry = NoData
  /\ ev = [op |-> "init", data |-> NoData, attempt |-> 0, fx |-> <<>>, escaped |-> FALSE]

(* autoSave(data) *)
AutoSave ==
  /\ nCalls < MaxCalls
  /\ LET data == [id |-> postId, rev |-> nCalls + 1]
     IN /\ Commit([Cur EXCEPT !.pendingDataRef = data], "autoSave", data, 0)
        /\ latest' = data
  /\ debounceTimer' = DebounceArm(debounceTimer)
  /\ nCalls' = nCalls + 1
  /\ sinceCall' = 0
  /\ superseded' = IF nCalls > 0 /\ nCalls \notin invoked
                     THEN superseded \cup {nCalls} ELSE superseded
  /\ clean' = (retryTimers = <<>> /\ inFlight = <<>>)
  /\ chain' = <<>>
  /\ exhaustedData' = NoData
  /\ deferredData' = NoData
  /\ deferredRetry' = NoData
  /\ UNCHANGED nConn

(* the debounce timer's callback *)
DebounceFire ==
  /\ debounceTimer = 0
  /\ debounceTimer' = NoTimer
  /\ \E setItemFails \in BOOLEAN :
       LET s == IF pendingDataRef # NoData
                  THEN ExecuteAutoSave(Cur, pendingDataRef, 1, setItemFails)
                  ELSE Cur
       IN /\ Commit(s, "debounce", pendingDataRef, 1)
          /\ chain' = ChainStart(s, 0)
  /\ deferredData' = IF pendingDataRef # NoData /\ ~isOnlineRef THEN pendingDataRef
                     ELSE deferredData
  /\ UNCHANGED <<nCalls, nConn, latest, sinceCall, superseded, clean, exhaustedData,
                 deferredRetry>>

(* a backoff timer's callback *)
RetryFire ==
  \E i \in 1..Len(retryTimers) :
    /\ retryTimers[i].remaining = 0
    /\ \E setItemFails \in BOOLEAN :
         LET t == retryTimers[i]
             s0 == [Cur EXCEPT !.retryTimers = RemoveAt(retryTimers, i)]
             data == RetryPayload(s0, t.data)
             s == IF pendingDataRef # NoData
                    THEN ExecuteAutoSave(s0, data, t.attempt, setItemFails)
                    ELSE s0
         IN /\ Commit(s, "retry", data, t.attempt)
            /\ chain' = ChainStart(s, t.elapsed)
            /\ deferredRetry' = IF data # NoData /\ ~isOnlineRef THEN data ELSE deferredRetry
    /\ UNCHANGED <<debounceTimer, nCalls, nConn, latest, sinceCall, superseded, clean,
                   exhaustedData, deferredData>>

(* window 'online' listener *)
HandleOnline ==
  /\ ~isOnlineRef
  /\ nConn < MaxConn
  /\ \E setItemFails \in BOOLEAN :
       LET s0 == [Cur EXCEPT !.isOnlineRef = TRUE]
           s == IF pendingDataRef # NoData
                  THEN ExecuteAutoSave(s0, pendingDataRef, 1, setItemFails)
                  ELSE s0
       IN /\ Commit(s, "online", pendingDataRef, 1)
          /\ chain' = chain
  /\ nConn' = nConn + 1
  /\ clean' = FALSE
  /\ deferredData' = NoData
  /\ deferredRetry' = NoData
  /\ UNCHANGED <<debounceTimer, nCalls, latest, sinceCall, superseded, exhaustedData>>

(* window 'offline' listener *)
HandleOffline ==
  /\ isOnlineRef
  /\ nConn < MaxConn
  /\ Commit([Cur EXCEPT !.isOnlineRef = FALSE], "offline", NoData, 0)
  /\ nConn' = nConn + 1
  /\ clean' = FALSE
  /\ UNCHANGED <<debounceTimer, nCalls, latest, sinceCall, superseded, chain, exhaustedData,
                 deferredData, deferredRetry>>

(* window 'beforeunload' listener *)
HandleBeforeUnload ==
  /\ \E setItemFails \in BOOLEAN :
       IF pendingDataRef # NoData /\ isSavingRef
         THEN /\ debounceTimer' = NoTimer
              /\ Commit([SaveToLocalStorage(Cur, pendingDataRef, setItemFails)
                           EXCEPT !.escaped = BackupEscapes(setItemFails)],
                        "unload", pendingDataRef, 0)
         ELSE /\ debounceTimer' = debounceTimer
              /\ Commit(Cur, "unload", pendingDataRef, 0)
  /\ UNCHANGED <<nCalls, nConn, latest, sinceCall, superseded, clean, chain, exhaustedData,
                 deferredData, deferredRetry>>

(* the component unmounts: the effects' cleanups run *)
Unmount ==
  /\ debounceTimer' = NoTimer
  /\ Commit([Cur EXCEPT !.mounted = FALSE], "unmount", NoData, 0)
  /\ UNCHANGED <<nCalls, nConn, latest, sinceCall, superseded, clean, chain, exhaustedData,
                 deferredData, deferredRetry>>

(* clearError() *)
ClearError ==
  /\ error # NoError
  /\ Commit([Cur EXCEPT !.error = NoError], "clearError", NoData, 0)
  /\ UNCHANGED <<debounceTimer, nCalls, nConn, latest, sinceCall, superseded, clean, chain,
                 exhaustedData, deferredData, deferredRetry>>

(* the promise returned by onSave resolves *)
OnSaveResolves ==
  \E i \in 1..Len(inFlight) :
    /\ Commit(AfterResolve([Cur EXCEPT !.inFlight = RemoveAt(inFlight, i)]),
              "resolve", inFlight[i].data, inFlight[i].attempt)
    /\ chain' = ChainSettle("ok")
    /\ UNCHANGED <<debounceTimer, nCalls, nConn, latest, sinceCall, superseded, clean,
                   exhaustedData, deferredData, deferredRetry>>

(* the promise returned by onSave rejects *)
OnSaveRejects ==
  \E i \in 1..Len(inFlight), reason \in Rejections :
    /\ Commit(AfterReject([Cur EXCEPT !.inFlight = RemoveAt(inFlight, i)],
                          inFlight[i].data, inFlight[i].attempt, reason),
              "reject", inFlight[i].data, inFlight[i].attempt)
    /\ chain' = ChainSettle("fail")
    /\ exhaustedData' = IF /\ inFlight[i].attempt = maxRetries
                           /\ debounceTimer = NoTimer /\ retryTimers = <<>>
                          THEN inFlight[i].data
                        ELSE exhaustedData
    /\ UNCHANGED <<debounceTimer, nCalls, nConn, latest, sinceCall, superseded, clean,
                   deferredData, deferredRetry>>

(* TimeUnit ms pass; no timer is due *)
Tick ==
  /\ debounceTimer # 0
  /\ \A i \in 1..Len(retryTimers) : retryTimers[i].remaining # 0
  /\ debounceTimer # NoTimer \/ retryTimers # <<>>
  /\ debounceTimer' = IF debounceTimer = NoTimer THEN NoTimer ELSE debounceTimer - TimeUnit
  /\ Commit([Cur EXCEPT !.retryTimers =
               [i \in 1..Len(retryTimers) |->
                  [retryTimers[i] EXCEPT !.remaining = @ - TimeUnit,
                                          !.elapsed = @ + TimeUnit]]],
            "tick", NoData, 0)
  /\ sinceCall' = IF sinceCall < delay THEN sinceCall + TimeUnit ELSE sinceCall
  /\ UNCHANGED <<nCalls, nConn, latest, superseded, clean, chain, exhaustedData, deferredData, deferredRetry>>

(* beforeunload ends the page: no handler of it runs afterwards *)
Init == ControllerInit /\ delay = debounceDelay /\ StoreIdle /\ UploaderIdle

Live == ev.op # "unload"

(* what the component's user and the window's listeners can reach only while the
   component is mounted; timers armed by setTimeout and pending promises go on *)
Next ==
  \/ Live /\ mounted /\ AutoSave
  \/ Live /\ DebounceFire
  \/ Live /\ RetryFire
  \/ Live /\ mounted /\ HandleOnline
  \/ Live /\ mounted /\ HandleOffline
  \/ Live /\ mounted /\ HandleBeforeUnload
  \/ Live /\ mounted /\ ClearError
  \/ Live /\ mounted /\ Unmount
  \/ Live /\ OnSaveResolves
  \/ Live /\ OnSaveRejects
  \/ Live /\ Tick

Spec == Init /\ [][Next]_vars

(* ======================= record store: the calls ======================= *)

(* ---- arguments the calls are made with ---- *)
Paragraph(words, chars) == [type |-> "paragraph", words |-> words, chars |-> chars]
Image == [type |-> "image", words |-> 0, chars |-> 0]
ShortContent == <<Paragraph(120, 700)>>
LongContent == <<Image, Paragraph(400, 2400)>>
HugeContent == <<Paragraph(1, 3 * 1024 * 1024)>>      \* one block of 3 MiB

CreateInputs == {[title |-> 12, authorName |-> 4, authorEmail |-> 9]}

(* the empty object, a status change, new content, new SEO inputs with and without *)
(* content, and an object carrying an id and a createdAt of its own                 *)
UpdateInputs ==
  { <<>>,
    [content |-> ShortContent],
    [content |-> HugeContent],
    [seoKeywords |-> <<"k1">>],
    [content |-> LongContent, seoTitle |-> 45, seoDescription |-> 130,
     seoKeywords |-> <<"k1", "k2", "k3">>],
    [id |-> UnknownId, createdAt |-> 0, status |-> "published"] }

Statuses == {"draft", "published"}

(* a complete post written by another installation *)
Foreign(id, content) ==
  [id |-> id, title |-> 20, slug |-> GenerateSlug(20), status |-> "published",
   content |-> content, author |-> [name |-> 4, email |-> 9],
   metadata |-> [wordCount |-> 0, readingTime |-> 0, seoScore |-> 0,
                 excerpt |-> [chars |-> 0, dots |-> FALSE], keywords |-> <<>>],
   tags |-> <<>>, createdAt |-> 0, updatedAt |-> 0, publishedAt |-> 0]
Partial == [id |-> 102, title |-> 23]       \* { id, title: 'Missing required fields' }
NoIdEntry == [title |-> 23]

StoredIds(raw) ==
  {Prop(GetAllPosts(raw)[i], "id") : i \in 1..Len(GetAllPosts(raw))} \ {Undefined}

(* the ids a call is made with: every id in the store and one that is not *)
CallIds == StoredIds(stored) \cup {UnknownId}

ImportArrays ==
  { <<>>,
    <<Foreign(101, ShortContent), Put(Foreign(101, ShortContent), "title", 7)>>,
    <<Partial, NoIdEntry, NoIdEntry>>,
    <<Foreign(101, ShortContent), NullEntry>>,
    <<Foreign(103, HugeContent)>>,
    <<Foreign(101, ShortContent), Foreign(104, HugeContent)>> }
  \cup {<<[id |-> i, title |-> 7], Partial>> : i \in StoredIds(stored)}

ImportTexts ==
  {Corrupt, NonArray, ExportPostsAsJson(stored)}
  \cup {JsonStringify(a, 0) : a \in ImportArrays}

Date == nOps + 1     \* the clock, read by new Date()

Call(op, id, input, out) ==
  /\ stored' = out.stored
  /\ nOps' = nOps + 1
  /\ res' = [op |-> op, id |-> id, input |-> input, before |-> stored, ret |-> out.ret]
  /\ UNCHANGED <<progVars, histVars, uploaderVars>>

CallCreatePost ==
  /\ nOps < MaxOps
  /\ \E input \in CreateInputs, setItemFails \in BOOLEAN :
       Call("createPost", Undefined, input,
            CreatePost(stored, input, GenerateId(nextId), Date, setItemFails))
  /\ nextId' = nextId + 1

CallUpdatePost ==
  /\ nOps < MaxOps
  /\ \E id \in CallIds, updates \in UpdateInputs, setItemFails \in BOOLEAN :
       Call("updatePost", id, updates, UpdatePost(stored, id, updates, Date, setItemFails))
  /\ UNCHANGED nextId

CallDeletePost ==
  /\ nOps < MaxOps
  /\ \E id \in CallIds, setItemFails \in BOOLEAN :
       Call("deletePost", id, <<>>, [stored |-> DeletePost(stored, id, setItemFails).stored,
                                     ret |-> [kind |-> "bool",
                                              value |-> DeletePost(stored, id, setItemFails).ret]])
  /\ UNCHANGED nextId

CallDuplicatePost ==
  /\ nOps < MaxOps
  /\ \E id \in CallIds, setItemFails \in BOOLEAN :
       /\ Call("duplicatePost", id, <<>>,
               DuplicatePost(stored, id, GenerateId(nextId), Date, setItemFails))
       /\ nextId' = IF GetPostById(stored, id) = NullRet THEN nextId ELSE nextId + 1

CallImportPostsFromJson ==
  /\ nOps < MaxOps
  /\ \E jsonString \in ImportTexts, setItemFails \in BOOLEAN :
       Call("importPostsFromJson", Undefined, jsonString,
            ImportPostsFromJson(stored, jsonString, setItemFails))
  /\ UNCHANGED nextId

(* the calls that only read *)
CallGetAllPosts ==
  /\ nOps < MaxOps
  /\ Call("getAllPosts", Undefined, <<>>,
          [stored |-> stored, ret |-> [kind |-> "list", posts |-> GetAllPosts(stored)]])
  /\ UNCHANGED nextId

CallGetPostById ==
  /\ nOps < MaxOps
  /\ \E id \in CallIds :
       Call("getPostById", id, <<>>, [stored |-> stored, ret |-> GetPostById(stored, id)])
  /\ UNCHANGED nextId

CallGetPostsByStatus ==
  /\ nOps < MaxOps
  /\ \E status \in Statuses :
       Call("getPostsByStatus", Undefined, status,
            [stored |-> stored,
             ret |-> [kind |-> "list", posts |-> GetPostsByStatus(stored, status)]])
  /\ UNCHANGED nextId

CallGetStorageStats ==
  /\ nOps < MaxOps
  /\ Call("getStorageStats", Undefined, <<>>,
          [stored |-> stored, ret |-> [kind |-> "stats", stats |-> GetStorageStats(stored)]])
  /\ UNCHANGED nextId

CallExportPostsAsJson ==
  /\ nOps < MaxOps
  /\ Call("exportPostsAsJson", Undefined, <<>>,
          [stored |-> stored, ret |-> [kind |-> "text", text |-> ExportPostsAsJson(stored)]])
  /\ UNCHANGED nextId

(* The page finds the key never written, or holding what another writer left there: *)
(* text that is not JSON, or JSON that is not an array.                             *)
StoreInit ==
  /\ ControllerInit
  /\ delay = debounceDelay
  /\ isOnlineRef = TRUE
  /\ postId = "p1"
  /\ stored \in {Missing, Corrupt, NonArray}
  /\ nextId = 1
  /\ nOps = 0
  /\ res = [NoResult EXCEPT !.before = stored]
  /\ UploaderIdle

StoreNext ==
  \/ CallCreatePost
  \/ CallUpdatePost
  \/ CallDeletePost
  \/ CallDuplicatePost
  \/ CallImportPostsFromJson
  \/ CallGetAllPosts
  \/ CallGetPostById
  \/ CallGetPostsByStatus
  \/ CallGetStorageStats
  \/ CallExportPostsAsJson

StoreSpec == StoreInit /\ [][StoreNext]_vars

(* ======================= properties ======================= *)

Started(e) == Starts(e.fx) # {}
Backups(fx) == {i \in 1..Len(fx) : fx[i].k = "setItem" /\ fx[i].key = DraftKey(fx[i].data)}
Arms(fx) == {i \in 1..Len(fx) : fx[i].k = "arm"}
Idle == retryTimers = <<>> /\ debounceTimer = NoTimer /\ inFlight = <<>>

(* C1: a payload queued by autoSave while an earlier payload's commit is in
   flight is not discarded when that commit completes: once the in-flight
   attempt has settled, the queued payload has been handed to onSave or is
   still retained as the pending payload. *)
C1_QueuedPayloadFlushed ==
  (ev.op \in {"resolve", "reject"} /\ latest.rev > ev.data.rev)
    => (latest.rev \in invoked \/ pendingDataRef = latest)

(* C2: at most one onSave invocation is in flight, the flag isSavingRef is
   true exactly while one is, and an executeAutoSave call arriving while the
   flag is true only records its payload as pending. *)
C2_OneInFlight ==
  /\ [](Len(inFlight) <= 1 /\ (isSavingRef <=> Len(inFlight) = 1))
  /\ [][(isSavingRef /\ ev'.op \in {"debounce", "retry", "online"} /\ ev'.data # NoData)
          => (inFlight' = inFlight /\ ev'.fx = <<>> /\ pendingDataRef' = ev'.data)]_vars

C2_Witness ==
  /\ ev.op \in {"debounce", "retry"}
  /\ ev.data # NoData
  /\ ev.fx = <<>>
  /\ isOnlineRef
  /\ Len(inFlight) = 1
  /\ pendingDataRef # inFlight[1].data

(* C3: autoSave itself never starts a commit; when the debounce timer of the
   last call of a burst made while online and idle expires, debounceDelay has
   elapsed since that call and exactly one commit attempt starts, with attempt
   number 1 and the payload of the last call; a payload superseded inside the
   window is never passed to onSave. *)
C3_Coalescing ==
  /\ [](superseded \cap invoked = {})
  /\ [][(ev'.op = "autoSave") => (inFlight' = inFlight /\ ev'.fx = <<>>)]_vars
  /\ [][(ev'.op = "debounce" /\ clean /\ chain = <<>> /\ isOnlineRef)
          => /\ sinceCall = debounceDelay
             /\ Cardinality(Starts(ev'.fx)) = 1
             /\ \A i \in Starts(ev'.fx) : ev'.fx[i].data = latest /\ ev'.fx[i].n = 1
             /\ Len(inFlight') = Len(inFlight) + 1]_vars

C3_Witness ==
  /\ ev.op = "debounce"
  /\ Started(ev)
  /\ clean
  /\ Len(chain) = 1
  /\ nCalls >= 2
  /\ superseded = 1..(nCalls - 1)
  /\ invoked = {nCalls}

(* C4 as claimed: after the attempt numbered maxRetries has failed for a
   payload (no timer armed earlier being outstanding), and until autoSave is
   called again, the error stays set (unless clearError is
   called) and no timer or event starts another onSave invocation for that
   payload; a debounce-started attempt has number 1. *)
C4_NoAutomaticRetryAfterExhaustion ==
  [][(exhaustedData # NoData /\ exhaustedData' = exhaustedData)
       => /\ \A i \in Starts(ev'.fx) : ev'.fx[i].data # exhaustedData
          /\ (error # NoError /\ ev'.op # "clearError" => error' # NoError)
          /\ (ev'.op = "debounce" => \A i \in Starts(ev'.fx) : ev'.fx[i].n = 1)]_vars

(* C4 amended: the failure of the attempt numbered maxRetries sets the error
   and arms no retry timer; the error is cleared only by clearError or by a
   successful attempt; while no timer is outstanding and nothing is in flight
   only an online event starts an onSave invocation; attempts started by the
   debounce timer or by an online event have attempt number 1. *)
C4_ExhaustionOnlyTimers ==
  /\ [][(ev'.op = "reject" /\ ev'.attempt = maxRetries)
          => (Arms(ev'.fx) = {} /\ Len(retryTimers') = Len(retryTimers) /\ error' # NoError)]_vars
  /\ [][(error # NoError /\ error' = NoError) => ev'.op \in {"clearError", "resolve"}]_vars
  /\ [][(Idle /\ Started(ev')) => ev'.op = "online"]_vars
  /\ [][(ev'.op \in {"debounce", "online"})
          => \A i \in Starts(ev'.fx) : ev'.fx[i].n = 1]_vars

C4_Witness ==
  /\ ev.op = "online"
  /\ exhaustedData # NoData
  /\ \E i \in Starts(ev.fx) : ev.fx[i].data = exhaustedData /\ ev.fx[i].n = 1
  /\ error # NoError
  /\ retryTimers = <<>>

(* C5: with no autoSave call and no connectivity change in between, a save
   function that fails twice and then succeeds is invoked exactly three times,
   as attempts 1, 2, 3, the second retryDelay*2^0 after the first failure and
   the third retryDelay*2^1 after the second, and the run ends in the success
   state. *)
C5_FailTwiceThenSucceed ==
  (/\ clean
   /\ Len(chain) >= 3
   /\ chain[1].outcome = "fail" /\ chain[2].outcome = "fail" /\ chain[3].outcome = "ok")
    => /\ Len(chain) = 3
       /\ chain[1].attempt = 1 /\ chain[2].attempt = 2 /\ chain[3].attempt = 3
       /\ chain[2].gap = retryDelay * Pow(2, 0)
       /\ chain[3].gap = retryDelay * Pow(2, 1)
       /\ error = NoError
       /\ lastSavedAt # NoDate
       /\ pendingDataRef = NoData
       /\ ~isSaving /\ ~isSavingRef
       /\ inFlight = <<>> /\ retryTimers = <<>>

C5_Witness ==
  /\ clean
  /\ Len(chain) = 3
  /\ chain[1].outcome = "fail" /\ chain[2].outcome = "fail" /\ chain[3].outcome = "ok"
  /\ ev.op = "resolve"
  /\ ev.attempt = 3

(* C6: a debounce expiry while offline invokes onSave zero times, writes the
   draft backup of the payload and retains it as pending; the next online
   transition starts exactly one onSave invocation, carrying that payload. *)
C6_OfflineDeferral ==
  /\ []((ev.op = "debounce" /\ ev.data # NoData /\ ~isOnlineRef)
          => /\ ~Started(ev)
             /\ \E i \in Backups(ev.fx) : ev.fx[i].data = ev.data
             /\ pendingDataRef = ev.data)
  /\ [][(ev'.op = "online" /\ deferredData # NoData)
          => /\ Cardinality(Starts(ev'.fx)) = 1
             /\ \A i \in Starts(ev'.fx) : ev'.fx[i].data = deferredData]_vars

(* C7: the beforeunload handler writes every retained pending payload to the
   draft backup before it returns. *)
C7_UnloadFlushesPending ==
  (ev.op = "unload" /\ ev.data # NoData)
    => \E i \in Backups(ev.fx) : ev.fx[i].data = ev.data

(* C8: every onSave invocation is immediately preceded, in the same
   synchronous step, by a draft-backup write of the same payload. *)
C8_BackupBeforeOnSave ==
  \A i \in Starts(ev.fx) :
    /\ i > 1
    /\ ev.fx[i - 1].k = "setItem"
    /\ ev.fx[i - 1].data = ev.fx[i].data

C8_Witness ==
  /\ ev.op = "retry"
  /\ ev.attempt > 1
  /\ \E i \in Starts(ev.fx) : ev.fx[i].n = ev.attempt /\ ev.fx[i - 1].k = "setItem"

(* C9: the payload a commit attempt passes to onSave, whatever started the
   attempt, is the payload of the most recent autoSave call. *)
C9_LatestPayloadCommitted ==
  \A i \in Starts(ev.fx) : ev.fx[i].data = latest

C9_Witness ==
  /\ ev.op = "retry"
  /\ Started(ev)
  /\ ev.data = latest
  /\ latest.rev > 1
  /\ (latest.rev - 1) \in invoked

(* C10: a throwing localStorage.setItem never escapes a handler, and in a
   commit attempt it changes nothing else: onSave is still invoked right after
   the failed backup write and the catch block is not entered. *)
C10_BackupFailureSwallowed ==
  /\ ~ev.escaped
  /\ (\E i \in Backups(ev.fx) : ev.fx[i].n = 1 /\ ev.fx[1].k = "attempt")
       => /\ Len(ev.fx) = 3
          /\ ev.fx[3].k = "onSave"
          /\ ev.fx[3].data = ev.fx[2].data
          /\ isSavingRef

C10_Witness ==
  /\ Len(ev.fx) = 3
  /\ ev.fx[1].k = "attempt"
  /\ ev.fx[2].k = "setItem" /\ ev.fx[2].n = 1
  /\ ev.fx[3].k = "onSave"
  /\ ev.fx[3].data = ev.data

(* ======================= properties of the record store ======================= *)
Before == GetAllPosts(res.before)     \* the collection the last call found
After == GetAllPosts(stored)          \* the collection it left
Ids(posts) == {Prop(posts[i], "id") : i \in 1..Len(posts)}

(* C11: deletePost(id) returns true when no record with that id exists as it
   does when it removed the record, so deleting the same id twice returns true
   both times. *)
C11_DeleteIdempotent ==
  (res.op = "deletePost" /\ res.id \notin Ids(After)) => res.ret.value = TRUE

(* a write that reports failure: a thrown error, null, false, success: false *)
Failed ==
  \/ res.ret = NullRet
  \/ res.ret.kind = "throw"
  \/ res.ret.kind = "bool" /\ ~res.ret.value
  \/ res.ret.kind = "import" /\ ~res.ret.success

Writes == {"createPost", "updatePost", "deletePost", "duplicatePost", "importPostsFromJson"}

(* C12: whatever sequence of createPost, updatePost, duplicatePost,
   importPostsFromJson and deletePost calls is made, the stored JSON array never
   takes more than MAX_STORAGE_SIZE bytes, and a write that is rejected (as
   every write that would take more is) leaves the stored value exactly as it
   found it. *)
C12_CapacityNeverExceeded ==
  /\ stored.kind = "array" => GetObjectSize(stored.posts) <= MAX_STORAGE_SIZE
  /\ (res.op \in Writes /\ Failed) => stored = res.before
  /\ (res.op \in Writes /\ res.ret.kind = "throw" /\ res.ret.message = "Storage limit exceeded")
       => res.ret.current > MAX_STORAGE_SIZE

C12_Witness ==
  /\ res.op = "importPostsFromJson"
  /\ res.ret.error = "Storage limit exceeded"
  /\ stored = res.before
  /\ 2 * GetObjectSize(After) > MAX_STORAGE_SIZE
  /\ GetObjectSize(After) <= MAX_STORAGE_SIZE

(* the members a BlogPost must have *)
RequiredFields ==
  {"id", "title", "slug", "status", "content", "author", "metadata", "tags",
   "createdAt", "updatedAt"}

ValidPost(p) == RequiredFields \subseteq DOMAIN p

(* C13: getPostById never returns a record that fails schema validation: for
   such a record it returns null, as it does for an id no record bears. *)
C13_GetPostByIdValidates ==
  res.op = "getPostById" => (res.ret = NullRet \/ ValidPost(res.ret.post))

(* C14: when the value under STORAGE_KEY is missing, is not parseable JSON or
   parses to something that is not an array, getAllPosts and getPostsByStatus
   return the empty list, getPostById returns null and getStorageStats reports
   zero posts. *)
C14_UnreadableStoreReadsEmpty ==
  res.before.kind # "array" =>
    /\ res.op \in {"getAllPosts", "getPostsByStatus"} => res.ret.posts = <<>>
    /\ res.op = "getPostById" => res.ret = NullRet
    /\ res.op = "getStorageStats" => res.ret.stats.posts = 0

C14_Witness ==
  /\ res.before = NonArray
  /\ res.op = "getAllPosts"
  /\ res.ret.posts = <<>>

IdsOf(posts) == [i \in 1..Len(posts) |-> Prop(posts[i], "id")]

IsPrefix(a, b) == Len(a) <= Len(b) /\ \A i \in 1..Len(a) : a[i] = b[i]

(* C15: after any sequence of createPost, duplicatePost, importPostsFromJson,
   updatePost and deletePost calls no two stored records have the same id, and
   no call changes the id of a record that was there: the ids found before the
   call stay where they were, except those deletePost removes. *)
C15_IdsUniqueAndStable ==
  /\ \A i, j \in 1..Len(After) : i # j => Prop(After[i], "id") # Prop(After[j], "id")
  /\ IF res.op = "deletePost"
       THEN IdsOf(After) = SelectSeq(IdsOf(Before), LAMBDA x : x # res.id) \/ stored = res.before
       ELSE IsPrefix(IdsOf(Before), IdsOf(After))

C15_Witness ==
  /\ res.op = "importPostsFromJson"
  /\ res.ret.success
  /\ \E i \in 1..Len(res.input.posts) : Prop(res.input.posts[i], "id") \in Ids(Before)
  /\ Len(After) > Len(Before)

(* C16: updatePost on an id that exists never changes that record's id or
   createdAt, whatever members updates carries; with the empty updates object
   updatedAt is the only member that changes; every other record stays as it
   was. *)
C16_UpdateKeepsIdentity ==
  (res.op = "updatePost" /\ res.id \in Ids(Before)) =>
    LET i == FindIndex(Before, res.id)
    IN IF res.ret = NullRet THEN stored = res.before
       ELSE /\ Len(After) = Len(Before)
            /\ Prop(After[i], "id") = Prop(Before[i], "id")
            /\ Prop(After[i], "createdAt") = Prop(Before[i], "createdAt")
            /\ Prop(res.ret.post, "id") = res.id
            /\ \A j \in 1..Len(Before) : j # i => After[j] = Before[j]
            /\ res.input = <<>> => Put(After[i], "updatedAt", 0) = Put(Before[i], "updatedAt", 0)

C16_Witness ==
  /\ res.op = "updatePost"
  /\ "id" \in DOMAIN res.input
  /\ res.ret # NullRet
  /\ Len(After) >= 2
  /\ After[FindIndex(Before, res.id)].id = res.id
  /\ After[FindIndex(Before, res.id)].status = "published"

(* the metadata of a post, computed from the content and the SEO members it has *)
MetadataOf(p) ==
  LET content == Field(p, "content", <<>>)
      wordCount == WordCount(content)
      keywords == Field(p, "seoKeywords", <<>>)
  IN [wordCount |-> wordCount,
      readingTime |-> CalculateReadingTime(wordCount),
      seoScore |-> CalculateSeoScore(OrElse(Field(p, "seoTitle", 0), Field(p, "title", 0)),
                                     Field(p, "seoDescription", 0), wordCount,
                                     HasImages(content), Len(keywords)),
      excerpt |-> ExtractExcerpt(Field(p, "title", 0), content),
      keywords |-> keywords]

SeoInputsDiffer(p, q) ==
  \/ Field(p, "content", <<>>) # Field(q, "content", <<>>)
  \/ Field(p, "seoTitle", 0) # Field(q, "seoTitle", 0)
  \/ Field(p, "seoDescription", 0) # Field(q, "seoDescription", 0)
  \/ Field(p, "seoKeywords", <<>>) # Field(q, "seoKeywords", <<>>)

(* C17: after an updatePost call that changes the content or an SEO input
   (seoTitle, seoDescription, seoKeywords) of a record, the stored metadata of
   that record is the metadata computed from the resulting content and the
   resulting SEO members. *)
C17_MetadataNeverStale ==
  (res.op = "updatePost" /\ res.id \in Ids(Before) /\ res.ret # NullRet) =>
    LET i == FindIndex(Before, res.id)
    IN SeoInputsDiffer(Before[i], After[i]) => After[i].metadata = MetadataOf(After[i])

(* C18: updatePost on an id that exists, when the collection with the merged
   record takes more than MAX_STORAGE_SIZE bytes, reports a failure carrying
   the current and the limit size, which is not the null it returns for an
   unknown id, and leaves the stored value as it was. *)
C18_UpdateCapacityFailureReported ==
  (res.op = "updatePost" /\ res.id \in Ids(Before)) =>
    LET i == FindIndex(Before, res.id)
        written == [Before EXCEPT ![i] = UpdatedPost(Before[i], res.input, nOps)]
    IN OverCapacity(written) =>
         /\ stored = res.before
         /\ res.ret # NullRet
         /\ res.ret.kind = "throw"
         /\ res.ret.current = GetObjectSize(written)
         /\ res.ret.limit = MAX_STORAGE_SIZE

(* the elements of the imported array bearing an id that neither a stored
   record nor an earlier element bears *)
NewInImport(imported, existing) ==
  LET keep == SelectSeq([i \in 1..Len(imported) |-> i],
                        LAMBDA i : /\ Prop(imported[i], "id") \notin Ids(existing)
                                   /\ \A j \in 1..(i - 1) :
                                        Prop(imported[j], "id") # Prop(imported[i], "id"))
  IN [k \in 1..Len(keep) |-> imported[keep[k]]]

(* C19: importPostsFromJson appends exactly the imported records whose id no
   record of the merged collection bears yet, overwrites no stored record and
   returns the number of records it added; when it fails (text that is not
   JSON, JSON that is not an array, capacity) it returns count 0 and leaves the
   stored value as it was. *)
C19_ImportMerges ==
  res.op = "importPostsFromJson" =>
    IF res.ret.success
      THEN /\ res.input.kind = "array"
           /\ After = Before \o NewInImport(res.input.posts, Before)
           /\ res.ret.count = Len(After) - Len(Before)
      ELSE /\ res.ret.count = 0
           /\ stored = res.before

C19_Witness ==
  /\ res.op = "importPostsFromJson"
  /\ res.ret.success
  /\ Before # <<>>
  /\ res.ret.count = 1
  /\ Len(res.input.posts) = 2

(* exportPostsAsJson() of the stored value, imported into an empty store *)
RoundTrip == ImportPostsFromJson(Missing, ExportPostsAsJson(stored), FALSE)

(* C20: whatever the store holds, the text exportPostsAsJson returns, given to
   importPostsFromJson on an empty store, yields the same records, member for
   member and in the same order, and a count equal to their number. *)
C20_ExportImportRoundTrip ==
  /\ RoundTrip.ret.success
  /\ RoundTrip.ret.count = Len(After)
  /\ GetAllPosts(RoundTrip.stored) = After

C20_Witness ==
  /\ Len(After) >= 3
  /\ \E i \in 1..Len(After) : "id" \notin DOMAIN After[i]
  /\ \E i \in 1..Len(After) : ValidPost(After[i])
  /\ res.op = "exportPostsAsJson"
  /\ GetAllPosts(ImportPostsFromJson(Missing, res.ret.text, FALSE).stored) = After

(* ======================= further properties of the controller ======================= *)

(* C21: the exposed isSaving is true exactly while a commit attempt is in
   flight, from the start of the attempt until onSave settles, and false at all
   other times: in the debounce window, during a backoff wait, while deferred
   offline and after the retries are exhausted. *)
C21_IsSavingExactlyInFlight ==
  /\ isSaving = (inFlight # <<>>)
  /\ isSaving = isSavingRef

C21_Witness ==
  /\ ~isSaving
  /\ retryTimers # <<>>
  /\ error # NoError
  /\ debounceTimer # NoTimer
  /\ ~isOnlineRef

(* C23: at any time at most one retry backoff timer is outstanding; an autoSave
   call made during a backoff wait, and the attempt its debounce timer starts,
   never leaves two retry chains running side by side. *)
C23_OneRetryTimer ==
  Len(retryTimers) <= 1

(* C24: after the hook is unmounted no new commit attempt starts: neither the
   debounce timer, nor a backoff timer armed before the unmount, nor an online
   event invokes onSave afterwards. *)
C24_NoAttemptAfterUnmount ==
  ~mounted => Starts(ev.fx) = {}

(* C25: every onSave invocation starts with the online flag true; while the
   flag is false neither a debounce expiry nor a backoff timer's expiry nor an
   autoSave call starts a commit attempt: such a step at most retains the
   payload and writes its draft backup, and an expiry deferred for being
   offline does both. *)
C25_AttemptsOnlyOnline ==
  /\ Starts(ev.fx) # {} => isOnlineRef
  /\ (~isOnlineRef /\ ev.op \in {"debounce", "retry", "autoSave"}) =>
       /\ \A i \in 1..Len(ev.fx) : ev.fx[i].k = "setItem" /\ ev.fx[i].data = pendingDataRef
       /\ ev.data # NoData => pendingDataRef = ev.data
       /\ (ev.op # "autoSave" /\ ev.data # NoData /\ ~isSavingRef) =>
            /\ Len(ev.fx) = 1
            /\ ev.fx[1].key = DraftKey(ev.data)

C25_Witness ==
  /\ ~isOnlineRef
  /\ ev.op = "debounce"
  /\ Len(ev.fx) = 1
  /\ ev.fx[1].k = "setItem"
  /\ pendingDataRef = ev.data
  /\ inFlight = <<>>

(* C26: a backoff timer that fires while the controller is offline ends its
   retry chain without invoking onSave: the payload is retained, its backup is
   written, the error stays set and no timer is armed; the next online
   transition starts attempt number 1 for the retained payload. *)
C26_OfflineRetryRestartsOnline ==
  [][/\ (ev'.op = "retry" /\ ev'.data # NoData /\ ~isOnlineRef)
          => /\ ~Started(ev')
             /\ Arms(ev'.fx) = {}
             /\ \E i \in Backups(ev'.fx) : ev'.fx[i].data = ev'.data
             /\ pendingDataRef' = ev'.data
             /\ error' = error
     /\ (ev'.op = "online" /\ deferredRetry # NoData)
          => /\ Cardinality(Starts(ev'.fx)) = 1
             /\ \A i \in Starts(ev'.fx) :
                  ev'.fx[i].data = deferredRetry /\ ev'.fx[i].n = 1]_vars

(* C27: the exposed error changes only in the step that completes a commit
   attempt or in clearError; it is null after an attempt that succeeded and
   after clearError, set after an attempt that failed; autoSave, the expiry of
   the debounce timer, a deferral while offline and the connectivity events
   leave it as it was. *)
C27_ErrorChangesOnlyOnCompletion ==
  [][/\ (error' # error => ev'.op \in {"resolve", "reject", "clearError"})
     /\ (ev'.op = "resolve" => error' = NoError)
     /\ (ev'.op = "reject" => error' # NoError)
     /\ (ev'.op = "clearError" => error' = NoError)]_vars

(* an attempt has failed and a later trigger was deferred offline: the error is still there *)
C27_Witness ==
  /\ ev.op = "debounce"
  /\ ~isOnlineRef
  /\ pendingDataRef = ev.data
  /\ error # NoError

(* ========================= further properties of the store ========================= *)

(* the records the last call appended *)
Added == SubSeq(After, Len(Before) + 1, Len(After))

(* C29: importPostsFromJson called twice in a row with the same text, the
   first call having imported it: the second call leaves the stored value as
   the first left it and, unless its write is refused, reports success with
   count 0; of the records of one imported array that bear the same id at most
   one is added. *)
C29_ImportIdempotent ==
  [][res'.op = "importPostsFromJson"
        => /\ res'.ret.success
                => \A i, j \in 1..Len(Added') :
                     Prop(Added'[i], "id") = Prop(Added'[j], "id") => i = j
           /\ (res.op = "importPostsFromJson" /\ res.ret.success /\ res'.input = res.input)
                => /\ stored' = stored
                   /\ res'.ret.count = 0
                   /\ res'.ret.success \/ res'.ret.error = "QuotaExceededError"]_vars

(* the same array of two records imported twice: the second call added nothing *)
C29_Witness ==
  /\ nOps >= 2
  /\ res.op = "importPostsFromJson"
  /\ res.ret.success
  /\ res.ret.count = 0
  /\ Len(res.input.posts) >= 2
  /\ stored = res.before
  /\ \A i \in 1..Len(res.input.posts) : Prop(res.input.posts[i], "id") \in Ids(After)

(* ============================ BlogEditor and its save callback ============================ *)
(* BlogEditor calls useAutoSave with a callback of its own around the onSave
   prop and with debounceDelay 2000; it takes only autoSave from what the
   hook returns. The posts it saves carry no id. *)

EditorDebounceDelay == 2000

(* what the onSave prop may do when called: return, throw, or return a promise
   that rejects later (the callback does not await it) *)
ParentOutcomes == {"returns", "throws", "rejects"}

SaveStatuses == {"idle", "saving", "saved", "error"}

(* how the promise of the callback settles: its whole body sits in try/catch *)
CallbackSettles_Uncaught(parent) == IF parent = "throws" THEN "reject" ELSE "resolve"
CallbackSettles(parent) == "resolve"

(* setSaveStatus('saved') after the call of the prop, setSaveStatus('error') in the catch *)
CallbackStatus(parent) == IF parent = "throws" THEN "error" ELSE "saved"

(* the callback has no await: it runs to its end when the hook calls it and
   its promise settles before any timer or event is served. Its effects on
   BlogEditor and the continuation of executeAutoSave make one step.
   setIsSaving(true) ... setIsSaving(false) of BlogEditor cancel out. *)
EditorOnSaveSettles ==
  /\ inFlight # <<>>
  /\ \E parent \in ParentOutcomes :
       LET att == Head(inFlight)
           s0 == [Cur EXCEPT !.inFlight = Tail(inFlight),
                             !.saveStatus = CallbackStatus(parent),
                             !.statusTimers = IF parent = "throws" THEN @ ELSE @ + 1]
       IN IF CallbackSettles(parent) = "resolve"
            THEN /\ Commit(AfterResolve(s0), "resolve", att.data, att.attempt)
                 /\ chain' = ChainSettle("ok")
            ELSE /\ Commit(AfterReject(s0, att.data, att.attempt, "Error"),
                           "reject", att.data, att.attempt)
                 /\ chain' = ChainSettle("fail")
  /\ UNCHANGED <<debounceTimer, nCalls, nConn, latest, sinceCall, superseded, clean,
                 exhaustedData, deferredData, deferredRetry>>

(* the timer armed after a save, 3 s later: it resets the status to 'idle' when
   the saveStatus its closure holds, that of some earlier render, is 'saved' *)
StatusReset ==
  /\ statusTimers > 0
  /\ \E seen \in SaveStatuses :
       Commit([Cur EXCEPT !.statusTimers = @ - 1,
                          !.saveStatus = IF seen = "saved" THEN "idle" ELSE @],
              "statusReset", NoData, 0)
  /\ UNCHANGED <<debounceTimer, nCalls, nConn, latest, sinceCall, superseded, clean, chain,
                 exhaustedData, deferredData, deferredRetry>>

EditorInit ==
  /\ ControllerInit
  /\ delay = EditorDebounceDelay
  /\ postId = ""
  /\ StoreIdle
  /\ UploaderIdle

Settled == inFlight = <<>>

EditorNext ==
  \/ Live /\ Settled /\ mounted /\ AutoSave
  \/ Live /\ Settled /\ DebounceFire
  \/ Live /\ Settled /\ mounted /\ HandleOnline
  \/ Live /\ Settled /\ mounted /\ HandleOffline
  \/ Live /\ Settled /\ mounted /\ HandleBeforeUnload
  \/ Live /\ Settled /\ mounted /\ Unmount
  \/ Live /\ Settled /\ mounted /\ StatusReset
  \/ Live /\ Settled /\ Tick
  \/ Live /\ EditorOnSaveSettles

EditorSpec == EditorInit /\ [][EditorNext]_vars

(* C28: in BlogEditor the callback given to useAutoSave never rejects, whatever
   the onSave prop does: every commit attempt the controller makes ends as a
   success, no backoff timer is ever armed and the exposed error is never
   set. *)
C28_EditorNeverRetries ==
  /\ error = NoError
  /\ retryTimers = <<>>
  /\ ev.op # "reject"
  /\ \A i \in 1..Len(ev.fx) : ev.fx[i].k # "arm"
  /\ \A i \in 1..Len(inFlight) : inFlight[i].attempt = 1
  /\ (invoked # {} /\ Settled) => lastSavedAt # NoDate

(* the onSave prop threw: BlogEditor shows 'error', the controller recorded a save *)
C28_Witness ==
  /\ ev.op = "resolve"
  /\ saveStatus = "error"
  /\ error = NoError
  /\ lastSavedAt # NoDate
  /\ pendingDataRef = NoData

(* ============================ image handler and ImageUploader ============================ *)

MaxUploads == 2    \* files given to the uploader or to the image handler in one run

MiB == 1024 * 1024

MAX_FILE_SIZE == 10 * 1024 * 1024
ALLOWED_FORMATS == {"image/jpeg", "image/png", "image/webp", "image/gif"}

(* a File: its MIME type and its size in bytes *)
FileTypes == ALLOWED_FORMATS \cup {"text/plain"}
FileSizes == {MiB, 5 * MiB, 5 * MiB + 1, 10 * MiB, 10 * MiB + 1}
Files == [type : FileTypes, size : FileSizes]

(* validateImageFile of the image handler *)
ValidateImageFile(file) ==
  IF file.size > MAX_FILE_SIZE
    THEN [valid |-> FALSE, error |-> "File size exceeds 10.0MB limit"]
  ELSE IF file.type \notin ALLOWED_FORMATS
    THEN [valid |-> FALSE, error |-> "Unsupported format"]
  ELSE [valid |-> TRUE, error |-> NoUploadError]

(* compressImage: the same image re-encoded, in fewer bytes *)
CompressImage(file) == [file EXCEPT !.size = @ \div 2]

NeedsCompression(file) == file.size > 2 * MiB

(* processImageFile; decodes: the browser can load the file as an image *)
ProcessImageFile(file, decodes) ==
  IF ~ValidateImageFile(file).valid
    THEN [kind |-> "throw", error |-> ValidateImageFile(file).error, src |-> NoFile]
  ELSE IF ~decodes THEN [kind |-> "throw", error |-> "Failed to load image", src |-> NoFile]
  ELSE [kind |-> "asset", error |-> NoUploadError,
        src |-> IF NeedsCompression(file) THEN CompressImage(file) ELSE file]

(* handleImageUpload *)
HandleImageUpload(file, compress, decodes) ==
  LET validation == ValidateImageFile(file)
      asset == ProcessImageFile(IF compress /\ NeedsCompression(file)
                                  THEN CompressImage(file) ELSE file, decodes)
  IN IF ~validation.valid
       THEN [success |-> FALSE, asset |-> FALSE, error |-> validation.error]
     ELSE IF asset.kind = "throw"
       THEN [success |-> FALSE, asset |-> FALSE, error |-> asset.error]
     ELSE [success |-> TRUE, asset |-> TRUE, error |-> NoUploadError]

(* ---- ImageUploader ---- *)
maxFileSize == 5                 \* prop, in MB; BlogEditor leaves it at the default
validTypes == {"image/jpeg", "image/png", "image/webp", "image/gif"}
ProcessFailed == "Failed to process image. Please try again."

(* Math.random() * 30, the growth of the progress at a tick of the interval *)
ProgressSteps == {10, 20}

(* validateFile: what it returns and what it leaves in the error state *)
ValidateFile(file) ==
  IF file.type \notin validTypes
    THEN [ok |-> FALSE, error |-> "Please upload a valid image file (JPEG, PNG, WebP, or GIF)"]
  ELSE IF file.size > maxFileSize * MiB
    THEN [ok |-> FALSE, error |-> "File size exceeds 5MB limit"]
  ELSE [ok |-> TRUE, error |-> NoUploadError]

(* clearInterval(handle); a handle that names no interval clears nothing *)
ClearInterval(live, handle) == live \ {handle}

(* uploadProgress as the closure of handleImageProcess holds it: its
   dependencies maxFileSize and onImageSelect do not change, so the callback
   is the one of the first render *)
CapturedProgress == 0

UploaderStep(op, file, accepted, message, asset) ==
  /\ up' = [op |-> op, file |-> file, accepted |-> accepted, error |-> message, asset |-> asset]
  /\ UNCHANGED <<progVars, histVars, storeVars>>

(* handleImageProcess up to the await *)
HandleImageProcess(op, file) ==
  LET v == ValidateFile(file)
  IN /\ uploadError' = v.error
     /\ IF v.ok
          THEN /\ isUploading' = TRUE
               /\ uploadProgress' = 0
               /\ intervals' = intervals \cup {nextHandle}
               /\ nextHandle' = nextHandle + 1
               /\ processing' = Append(processing, [file |-> file, progressInterval |-> nextHandle])
               /\ failed' = FALSE
          ELSE UNCHANGED <<isUploading, uploadProgress, intervals, nextHandle, processing, failed>>
     /\ nUploads' = nUploads + 1
     /\ UploaderStep(op, file, v.ok, v.error, FALSE)
     /\ UNCHANGED <<previewUrl, reading, resetTimers, selected>>

(* a file chosen in the file input, which is disabled while isUploading *)
HandleFileChange ==
  /\ nUploads < MaxUploads
  /\ ~isUploading
  /\ \E file \in Files : HandleImageProcess("handleFileChange", file)

(* a file dropped on the upload zone *)
HandleDrop ==
  /\ nUploads < MaxUploads
  /\ \E file \in Files : HandleImageProcess("handleDrop", file)

(* the callback of an interval that was not cleared *)
ProgressTick ==
  /\ intervals # {}
  /\ \E d \in ProgressSteps : uploadProgress' = Min(uploadProgress + d, 90)
  /\ UploaderStep("progress", NoFile, FALSE, NoUploadError, FALSE)
  /\ UNCHANGED <<isUploading, previewUrl, uploadError, intervals, nextHandle, processing,
                 reading, resetTimers, selected, nUploads, failed>>

(* handleImageProcess after the await: processImage resolved *)
ProcessImageResolves ==
  \E i \in 1..Len(processing) :
    /\ uploadProgress' = 100
    /\ intervals' = ClearInterval(intervals, processing[i].progressInterval)
    /\ reading' = Append(reading, processing[i].file)
    /\ processing' = RemoveAt(processing, i)
    /\ UploaderStep("processed", processing[i].file, TRUE, NoUploadError, TRUE)
    /\ UNCHANGED <<isUploading, previewUrl, uploadError, nextHandle, resetTimers, selected,
                   nUploads, failed>>

(* handleImageProcess after the await: processImage threw or rejected; the catch block *)
ProcessImageRejects ==
  \E i \in 1..Len(processing) :
    /\ intervals' = ClearInterval(intervals, CapturedProgress)
    /\ uploadError' = ProcessFailed
    /\ isUploading' = FALSE
    /\ uploadProgress' = 0
    /\ processing' = RemoveAt(processing, i)
    /\ failed' = TRUE
    /\ UploaderStep("failed", processing[i].file, TRUE, ProcessFailed, FALSE)
    /\ UNCHANGED <<previewUrl, nextHandle, reading, resetTimers, selected, nUploads>>

(* reader.onload *)
ReaderLoads ==
  /\ reading # <<>>
  /\ previewUrl' = Head(reading)
  /\ selected' = selected + 1
  /\ resetTimers' = resetTimers + 1
  /\ reading' = Tail(reading)
  /\ UploaderStep("onload", Head(reading), TRUE, NoUploadError, TRUE)
  /\ UNCHANGED <<isUploading, uploadError, uploadProgress, intervals, nextHandle, processing,
                 nUploads, failed>>

(* the timer armed by reader.onload, 1500 ms later *)
ResetFires ==
  /\ resetTimers > 0
  /\ resetTimers' = resetTimers - 1
  /\ isUploading' = FALSE
  /\ uploadProgress' = 0
  /\ previewUrl' = NoUrl
  /\ UploaderStep("reset", NoFile, FALSE, NoUploadError, FALSE)
  /\ UNCHANGED <<uploadError, intervals, nextHandle, processing, reading, selected, nUploads,
                 failed>>

HandleClearError ==
  /\ uploadError # NoUploadError
  /\ uploadError' = NoUploadError
  /\ UploaderStep("clearError", NoFile, FALSE, NoUploadError, FALSE)
  /\ UNCHANGED <<isUploading, previewUrl, uploadProgress, intervals, nextHandle, processing,
                 reading, resetTimers, selected, nUploads, failed>>

(* a call of handleImageUpload of the image handler *)
CallHandleImageUpload ==
  /\ nUploads < MaxUploads
  /\ nUploads' = nUploads + 1
  /\ \E file \in Files, compress \in BOOLEAN, decodes \in BOOLEAN :
       LET r == HandleImageUpload(file, compress, decodes)
       IN UploaderStep("handleImageUpload", file, ValidateImageFile(file).valid, r.error, r.asset)
  /\ UNCHANGED <<isUploading, previewUrl, uploadError, uploadProgress, intervals, nextHandle,
                 processing, reading, resetTimers, selected, failed>>

(* a call of processImageFile of the image handler *)
CallProcessImageFile ==
  /\ nUploads < MaxUploads
  /\ nUploads' = nUploads + 1
  /\ \E file \in Files, decodes \in BOOLEAN :
       LET r == ProcessImageFile(file, decodes)
       IN UploaderStep("processImageFile", file, ValidateImageFile(file).valid, r.error,
                       r.kind = "asset")
  /\ UNCHANGED <<isUploading, previewUrl, uploadError, uploadProgress, intervals, nextHandle,
                 processing, reading, resetTimers, selected, failed>>

UploaderInit ==
  /\ ControllerInit
  /\ delay = debounceDelay
  /\ isOnlineRef = TRUE
  /\ postId = "p1"
  /\ StoreIdle
  /\ UploaderIdle

UploaderNext ==
  \/ HandleFileChange
  \/ HandleDrop
  \/ ProgressTick
  \/ ProcessImageResolves
  \/ ProcessImageRejects
  \/ ReaderLoads
  \/ ResetFires
  \/ HandleClearError
  \/ CallHandleImageUpload
  \/ CallProcessImageFile

UploaderSpec == UploaderInit /\ [][UploaderNext]_vars

ValidationPaths == {"handleFileChange", "handleDrop", "handleImageUpload", "processImageFile"}

(* C22: on every validation path a file is accepted only when its MIME type is
   one of image/jpeg, image/png, image/webp, image/gif and its size is at most
   5 MiB; a file that is not accepted is reported with an error and yields no
   asset. *)
C22_ImageLimits ==
  up.op \in ValidationPaths =>
    /\ up.accepted => (up.file.type \in ALLOWED_FORMATS /\ up.file.size <= 5 * MiB)
    /\ up.asset => up.accepted
    /\ ~up.accepted => (up.error # NoUploadError /\ ~up.asset)

(* C30: when processImage has failed, the interval that simulates the progress
   of that upload is cleared; with no other upload under way, uploadProgress
   then stays 0 and isUploading false until the next upload begins. *)
C30_ProgressStopsAfterFailure ==
  (failed /\ processing = <<>> /\ reading = <<>> /\ resetTimers = 0)
    => /\ intervals = {}
       /\ uploadProgress = 0
       /\ ~isUploading

====
